---- MODULE Spec2Model ----
(***************************************************************************)
(* JsonLdCredentialFormatService: the JSON-LD credential format adapter of *)
(* the issue-credential protocol (proposal, offer, request, credential).   *)
(*                                                                         *)
(* The adapter is stateless.  The state is what the protocol engine holds  *)
(* for one exchange (the attachments of the four messages and the          *)
(* credentials list of the exchange record) plus an observation of the     *)
(* most recent call: which operation ran, how it ended, what it returned   *)
(* and which collaborator functions it invoked, in order.                  *)
(***************************************************************************)
EXTENDS Integers, Sequences, FiniteSets, TLC

VARIABLES
  proposalAttachment,   \* attachment of the propose-credential message
  offerAttachment,      \* attachment of the offer-credential message
  requestAttachment,    \* attachment of the request-credential message
  credentialAttachment, \* attachment of the issue-credential message
  credentials,          \* credentialRecord.credentials of the exchange record
  op,                   \* the operation that ran last
  args,                 \* the scalar inputs of that call
  outcome,              \* how that call ended: returned, or the error thrown
  ret,                  \* what that call returned
  calls,                \* the collaborator calls that call made, in order
  phase                 \* how many messages, counted from the proposal, were
                        \* each made from the one before it by this service

vars == <<proposalAttachment, offerAttachment, requestAttachment,
          credentialAttachment, credentials, op, args, outcome, ret, calls, phase>>

-----------------------------------------------------------------------------
(* Bounds of the model *)

\* processCredential is called while the exchange record holds fewer entries.
MaxCredentials == 2

-----------------------------------------------------------------------------
(* Values *)

\* JavaScript's undefined: the value of an absent member or argument.
Undef == "undefined"

JSONLD_VC_DETAIL == "aries/ld-proof-vc-detail@v1.0"
JSONLD_VC == "aries/ld-proof-vc@1.0"
credentialRecordType == "w3c"

\* Error messages of the service.
ErrMissingProposal == "Missing jsonld credential proposal data payload"
ErrMissingOffer == "Missing jsonld credential offer data payload"
ErrMissingRequest == "Missing jsonld credential request data payload"
ErrMissingCreateProposal == "Missing jsonld payload in createProposal"
ErrMissingCreateOffer == "Missing jsonld payload in createOffer"
ErrMissingCreateRequest == "Missing jsonld payload in createRequest"
ErrMissingVerificationMethod == "Missing verification method in credential data"
ErrUnsupportedFields == "Some fields are not currently supported in credential options"
ErrNoKeyType == "No Key Type found for proofType"
ErrMissingMethodForKeyType == "Missing verification method for key type"
ErrFailedToValidate == "Failed to validate credential"
ErrProofArray == "Credential proof arrays are not supported"
ErrCreated == "Received credential proof created does not match created from credential request"
ErrDomain == "Received credential proof domain does not match domain from credential request"
ErrChallenge == "Received credential proof challenge does not match challenge from credential request"
ErrProofType == "Received credential proof type does not match proof type from credential request"
ErrProofPurpose == "Received credential proof purpose does not match proof purpose from credential request"
ErrCredentialMismatch == "Received credential does not match credential request"

\* Errors thrown by code the service calls.
ErrValidation == "ClassValidationError"
ErrTypeError == "TypeError"
ErrResolver == "resolveDidDocument failed"
ErrSigner == "signCredential failed"
ErrVerifier == "verifyCredential failed"
ErrStore == "storeCredential failed"

MatcherErrors ==
  {ErrProofArray, ErrCreated, ErrDomain, ErrChallenge, ErrProofType,
   ErrProofPurpose, ErrCredentialMismatch}

Ok == [status |-> "ok", message |-> "", fields |-> <<>>]
Err(m) == [status |-> "error", message |-> m, fields |-> <<>>]
ErrWith(m, fs) == [status |-> "error", message |-> m, fields |-> fs]

\* A JSON credential (JsonCredential): the issuer is a string or an object
\* with an id; type stands for the members every credential must carry.
Credential(type, issuerForm, issuerId, claim) ==
  [type |-> type, issuerForm |-> issuerForm, issuerId |-> issuerId, claim |-> claim]

NoProof ==
  [shape |-> "absent", type |-> Undef, proofPurpose |-> Undef, created |-> Undef,
   domain |-> Undef, challenge |-> Undef, verificationMethod |-> Undef]

NoOptions ==
  [proofType |-> Undef, proofPurpose |-> Undef, created |-> Undef,
   domain |-> Undef, challenge |-> Undef, credentialStatus |-> Undef]

NoCredential == Credential(Undef, "absent", Undef, Undef)

\* A decoded JSON value: null, a credential detail { credential, options },
\* or a credential (with or without proof).
Json(form, credential, options, proof) ==
  [form |-> form, credential |-> credential, options |-> options, proof |-> proof]

NullJson == Json("null", NoCredential, NoOptions, NoProof)
Detail(credential, options) == Json("detail", credential, options, NoProof)
Verifiable(credential, proof) == Json("credential", credential, NoOptions, proof)

-----------------------------------------------------------------------------
(* JsonEncoder.toBase64 and V1Attachment.getDataAsJson: a JSON text is the   *)
(* sequence of its (path, value) members; members whose value is undefined   *)
(* are not written, an absent member reads as undefined.                     *)

CredentialPaths(prefix) ==
  <<prefix \o "type", prefix \o "issuer", prefix \o "issuer.id", prefix \o "claim">>

CredentialMember(c, path, prefix) ==
  IF path = prefix \o "type" THEN c.type
  ELSE IF path = prefix \o "issuer"
    THEN (IF c.issuerForm = "string" THEN c.issuerId ELSE Undef)
  ELSE IF path = prefix \o "issuer.id"
    THEN (IF c.issuerForm = "object" THEN c.issuerId ELSE Undef)
  ELSE c.claim

OptionNames ==
  <<"proofType", "proofPurpose", "created", "domain", "challenge", "credentialStatus">>

ProofNames ==
  <<"type", "proofPurpose", "created", "domain", "challenge", "verificationMethod">>

Written(members) == SelectSeq(members, LAMBDA m : m[2] # Undef)

ProofPrefix(p) == IF p.shape = "array" THEN "proof[0]." ELSE "proof."

ProofMembers(p) ==
  IF p.shape = "absent" THEN <<>>
  ELSE [i \in 1..Len(ProofNames) |-> <<ProofPrefix(p) \o ProofNames[i], p[ProofNames[i]]>>]

\* JSON.stringify.
Stringify(d) ==
  IF d.form = "null" THEN << <<"null", "null">> >>
  ELSE IF d.form = "detail" THEN Written(
    [i \in 1..4 |-> <<CredentialPaths("credential.")[i],
                      CredentialMember(d.credential, CredentialPaths("credential.")[i], "credential.")>>]
    \o [i \in 1..Len(OptionNames) |-> <<"options." \o OptionNames[i], d.options[OptionNames[i]]>>])
  ELSE Written(
    [i \in 1..4 |-> <<CredentialPaths("")[i],
                      CredentialMember(d.credential, CredentialPaths("")[i], "")>>]
    \o ProofMembers(d.proof))

Has(text, path) == \E i \in 1..Len(text) : text[i][1] = path

Member(text, path) ==
  IF Has(text, path) THEN text[CHOOSE i \in 1..Len(text) : text[i][1] = path][2] ELSE Undef

ParseCredential(text, prefix) ==
  [type |-> Member(text, prefix \o "type"),
   issuerForm |-> IF Has(text, prefix \o "issuer") THEN "string"
                  ELSE IF Has(text, prefix \o "issuer.id") THEN "object" ELSE "absent",
   issuerId |-> IF Has(text, prefix \o "issuer") THEN Member(text, prefix \o "issuer")
                ELSE Member(text, prefix \o "issuer.id"),
   claim |-> Member(text, prefix \o "claim")]

ParseProof(text) ==
  LET shape == IF \E i \in 1..Len(ProofNames) : Has(text, "proof[0]." \o ProofNames[i]) THEN "array"
               ELSE IF \E i \in 1..Len(ProofNames) : Has(text, "proof." \o ProofNames[i]) THEN "object"
               ELSE "absent"
      prefix == IF shape = "array" THEN "proof[0]." ELSE "proof."
  IN  [shape |-> shape,
       type |-> Member(text, prefix \o "type"),
       proofPurpose |-> Member(text, prefix \o "proofPurpose"),
       created |-> Member(text, prefix \o "created"),
       domain |-> Member(text, prefix \o "domain"),
       challenge |-> Member(text, prefix \o "challenge"),
       verificationMethod |-> Member(text, prefix \o "verificationMethod")]

IsDetailText(text) ==
  \/ \E i \in 1..4 : Has(text, CredentialPaths("credential.")[i])
  \/ \E i \in 1..Len(OptionNames) : Has(text, "options." \o OptionNames[i])

\* JSON.parse.
ParseJson(text) ==
  IF Has(text, "null") THEN NullJson
  ELSE IF IsDetailText(text)
    THEN Detail(ParseCredential(text, "credential."),
                [f \in {OptionNames[i] : i \in 1..Len(OptionNames)} |->
                   Member(text, "options." \o f)])
  ELSE Verifiable(ParseCredential(text, ""), ParseProof(text))

\* V1Attachment: id, mime type and base64 data.
NoAttachment == [id |-> Undef, mimeType |-> Undef, base64 |-> <<>>]

getFormatData(data, id) ==
  [id |-> id, mimeType |-> "application/json", base64 |-> Stringify(data)]

getDataAsJson(attachment) == ParseJson(attachment.base64)

\* CredentialFormatSpec: the attach id given, else a generated one.
CredentialFormatSpec(attachId, format, uuid_) ==
  [attachId |-> IF attachId # Undef THEN attachId ELSE uuid_, format |-> format]

NoFormat == [attachId |-> Undef, format |-> Undef]

-----------------------------------------------------------------------------
(* JsonTransformer.fromJSON(json, Class) validates: it throws unless the    *)
(* JSON value conforms to the class.                                        *)

ValidW3cCredential(c) ==
  c.type # Undef /\ c.issuerForm # "absent" /\ c.issuerId # Undef

ValidOptions(o) == o.proofType # Undef

\* W3cCredential
IsW3cCredential(json) ==
  json.form = "credential" /\ ValidW3cCredential(json.credential)

\* W3cVerifiableCredential: a credential with a proof or an array of proofs.
IsW3cVerifiableCredential(json) ==
  IsW3cCredential(json) /\ json.proof.shape # "absent"

\* JsonLdCredentialDetail: the members credential and options, where present,
\* are validated as W3cCredential and as the detail's options.
IsJsonLdCredentialDetail(json) ==
  /\ json.form # "null"
  /\ json.form = "detail" =>
       /\ json.credential # NoCredential => ValidW3cCredential(json.credential)
       /\ json.options # NoOptions => ValidOptions(json.options)

\* json.credential of a decoded detail, as a JSON value of its own.
CredentialOf(json) ==
  IF json.form = "detail" /\ json.credential # NoCredential
  THEN Verifiable(json.credential, NoProof) ELSE NullJson

-----------------------------------------------------------------------------
(* Collaborators: DidResolverService and W3cCredentialService.  What they  *)
(* answer is an input of the call; that they were called is recorded.      *)

Call(fn, did, proofType, verificationMethod) ==
  [fn |-> fn, did |-> did, proofType |-> proofType, verificationMethod |-> verificationMethod]

Called(fn) == \E i \in 1..Len(calls) : calls[i].fn = fn

CountCalls(fn) == Cardinality({i \in 1..Len(calls) : calls[i].fn = fn})

\* findVerificationMethodByKeyType: the first verification method of the
\* document with the key type, or none.
HasMethodOfType(keyType, didDocument) ==
  \E i \in 1..Len(didDocument) : didDocument[i].type = keyType

findVerificationMethodByKeyType(keyType, didDocument) ==
  didDocument[CHOOSE i \in 1..Len(didDocument) :
                /\ didDocument[i].type = keyType
                /\ \A j \in 1..(i - 1) : didDocument[j].type # keyType]

\* A change of deriveVerificationMethod: any compatible key type will do, not
\* the first one only.
deriveVerificationMethodAnyKeyType(credentialAsJson, credentialRequest, resolved, keyType) ==
  IF ~IsW3cCredential(credentialAsJson)
  THEN [outcome |-> Err(ErrValidation), value |-> Undef, calls |-> <<>>]
  ELSE
    LET issuerDid == credentialAsJson.credential.issuerId
        proofType == credentialRequest.options.proofType
        c1 == <<Call("resolveDidDocument", issuerDid, Undef, Undef)>>
        c2 == c1 \o <<Call("getVerificationMethodTypesByProofType", Undef, proofType, Undef)>>
        usable == {i \in 1..Len(keyType) : HasMethodOfType(keyType[i], resolved.verificationMethod)}
    IN  IF ~resolved.ok
        THEN [outcome |-> Err(ErrResolver), value |-> Undef, calls |-> c1]
        ELSE IF Len(keyType) = 0
        THEN [outcome |-> ErrWith(ErrNoKeyType, <<proofType>>), value |-> Undef, calls |-> c2]
        ELSE IF usable = {}
        THEN [outcome |-> ErrWith(ErrMissingMethodForKeyType, keyType), value |-> Undef, calls |-> c2]
        ELSE [outcome |-> Ok,
              value |-> findVerificationMethodByKeyType(
                          keyType[CHOOSE i \in usable : \A j \in usable : i <= j],
                          resolved.verificationMethod).id,
              calls |-> c2]

\* deriveVerificationMethod(credentialAsJson, credentialRequest), where
\* resolved is what resolveDidDocument answers and keyType what
\* getVerificationMethodTypesByProofType answers.
deriveVerificationMethod(credentialAsJson, credentialRequest, resolved, keyType) ==
  IF ~IsW3cCredential(credentialAsJson)
  THEN [outcome |-> Err(ErrValidation), value |-> Undef, calls |-> <<>>]
  ELSE
    LET issuerDid == credentialAsJson.credential.issuerId
        proofType == credentialRequest.options.proofType
        c1 == <<Call("resolveDidDocument", issuerDid, Undef, Undef)>>
        c2 == c1 \o <<Call("getVerificationMethodTypesByProofType", Undef, proofType, Undef)>>
    IN  IF ~resolved.ok
        THEN [outcome |-> Err(ErrResolver), value |-> Undef, calls |-> c1]
        ELSE IF Len(keyType) = 0
        THEN [outcome |-> ErrWith(ErrNoKeyType, <<proofType>>), value |-> Undef, calls |-> c2]
        ELSE IF ~HasMethodOfType(keyType[1], resolved.verificationMethod)
        THEN [outcome |-> ErrWith(ErrMissingMethodForKeyType, keyType), value |-> Undef, calls |-> c2]
        ELSE [outcome |-> Ok,
              value |-> findVerificationMethodByKeyType(keyType[1], resolved.verificationMethod).id,
              calls |-> c2]

\* The options of acceptRequest that are not supported, in the order listed.
unsupportedFields == <<"challenge", "domain", "credentialStatus", "created">>

\* A change of foundFields: the first unsupported field found is the only one reported.
foundFirstField(options) ==
  LET found == SelectSeq(unsupportedFields, LAMBDA field : options[field] # Undef)
  IN  IF Len(found) > 1 THEN <<found[1]>> ELSE found

foundFields(options) == SelectSeq(unsupportedFields, LAMBDA field : options[field] # Undef)

\* What signCredential returns: the credential with a proof of the proof type
\* by the verification method.
Signed(credential, proofType, verificationMethod) ==
  Verifiable(credential,
    [shape |-> "object", type |-> proofType, proofPurpose |-> "assertionMethod",
     created |-> "2022-01-01", domain |-> Undef, challenge |-> Undef,
     verificationMethod |-> verificationMethod])

NoReturn == [format |-> NoFormat, attachment |-> NoAttachment, value |-> Undef]
Returned(format, attachment) == [format |-> format, attachment |-> attachment, value |-> Undef]
ReturnedValue(v) == [format |-> NoFormat, attachment |-> NoAttachment, value |-> v]

Thrown(o, cs) == [outcome |-> o, ret |-> NoReturn, calls |-> cs]

\* A change of verificationMethodFor: the issuer's document is asked even when
\* the caller names a verification method.
verificationMethodAlwaysDerived(verificationMethod, credentialRequest, resolved, keyType) ==
  IF credentialRequest.form = "null"
  THEN [outcome |-> Err(ErrTypeError), value |-> Undef, calls |-> <<>>]
  ELSE deriveVerificationMethod(CredentialOf(credentialRequest), credentialRequest,
                                resolved, keyType)

\* credentialFormats?.jsonld?.verificationMethod ?? deriveVerificationMethod(...)
verificationMethodFor(verificationMethod, credentialRequest, resolved, keyType) ==
  IF verificationMethod # Undef
  THEN [outcome |-> Ok, value |-> verificationMethod, calls |-> <<>>]
  ELSE IF credentialRequest.form = "null"
  THEN [outcome |-> Err(ErrTypeError), value |-> Undef, calls |-> <<>>]
  ELSE deriveVerificationMethod(CredentialOf(credentialRequest), credentialRequest,
                                resolved, keyType)

\* acceptRequest: the body of the handler.  verificationMethod is
\* credentialFormats.jsonld.verificationMethod, signs whether signCredential
\* returns (or throws), uuid the id CredentialFormatSpec would generate.
acceptRequestBody(attachment, attachId, verificationMethod, resolved, keyType, signs, uuid_) ==
  LET credentialRequest == getDataAsJson(attachment)
      derived == verificationMethodFor(verificationMethod, credentialRequest, resolved, keyType)
      format == CredentialFormatSpec(attachId, JSONLD_VC, uuid_)
      options == credentialRequest.options
      signCall == Call("signCredential", credentialRequest.credential.issuerId,
                       options.proofType, derived.value)
  IN  IF derived.outcome.status # "ok" THEN Thrown(derived.outcome, derived.calls)
      ELSE IF derived.value = "" THEN Thrown(Err(ErrMissingVerificationMethod), derived.calls)
      ELSE IF credentialRequest.form # "detail" THEN Thrown(Err(ErrTypeError), derived.calls)
      ELSE IF Len(foundFields(options)) > 0
      THEN Thrown(ErrWith(ErrUnsupportedFields, foundFields(options)), derived.calls)
      ELSE IF ~IsW3cCredential(CredentialOf(credentialRequest))
      THEN Thrown(Err(ErrValidation), derived.calls)
      ELSE IF ~signs THEN Thrown(Err(ErrSigner), derived.calls \o <<signCall>>)
      ELSE [outcome |-> Ok,
            ret |-> Returned(format,
                      getFormatData(Signed(credentialRequest.credential, options.proofType,
                                           derived.value), format.attachId)),
            calls |-> derived.calls \o <<signCall>>]

-----------------------------------------------------------------------------
(* Credential receipt *)

Truthy(v) == v # Undef /\ v # ""

\* The matcher with the proof-array check made after the other rules.
verifyProofArrayCheckedLast(credential, request) ==
  IF request.form # "detail" THEN Err(ErrTypeError)
  ELSE IF Truthy(request.options.created) /\ credential.proof.created # request.options.created
    THEN Err(ErrCreated)
  ELSE IF credential.proof.domain # request.options.domain THEN Err(ErrDomain)
  ELSE IF credential.proof.challenge # request.options.challenge THEN Err(ErrChallenge)
  ELSE IF credential.proof.type # request.options.proofType THEN Err(ErrProofType)
  ELSE IF credential.proof.proofPurpose # request.options.proofPurpose THEN Err(ErrProofPurpose)
  ELSE IF credential.credential # request.credential THEN Err(ErrCredentialMismatch)
  ELSE IF credential.proof.shape = "array" THEN Err(ErrProofArray)
  ELSE Ok

\* verifyReceivedCredentialMatchesRequest(credential, request): Ok, or the
\* error thrown.
verifyReceivedCredentialMatchesRequest(credential, request) ==
  LET jsonCredential == credential.credential   \* toJSON(credential), proof deleted
  IN
  IF credential.proof.shape = "array" THEN Err(ErrProofArray)
  ELSE IF request.form # "detail" THEN Err(ErrTypeError)
  ELSE IF Truthy(request.options.created) /\ credential.proof.created # request.options.created
    THEN Err(ErrCreated)
  ELSE IF credential.proof.domain # request.options.domain THEN Err(ErrDomain)
  ELSE IF credential.proof.challenge # request.options.challenge THEN Err(ErrChallenge)
  ELSE IF credential.proof.type # request.options.proofType THEN Err(ErrProofType)
  ELSE IF credential.proof.proofPurpose # request.options.proofPurpose THEN Err(ErrProofPurpose)
  ELSE IF jsonCredential # request.credential THEN Err(ErrCredentialMismatch)
  ELSE Ok

\* What verifyCredential answers: nothing, a result with verified true, a
\* result with verified false and an error, or it throws.
VerifyAnswers == {"undefined", "verified", "not verified", "throws"}

\* processCredential: the body of the handler.  result is what
\* verifyCredential answers, stored the id of the record storeCredential
\* returns (undefined: it throws).
processCredentialBody(record, attachment, request, result, stored) ==
  LET credentialAsJson == getDataAsJson(attachment)
      requestAsJson == getDataAsJson(request)
      matches == verifyReceivedCredentialMatchesRequest(credentialAsJson, requestAsJson)
      verifyCall == <<Call("verifyCredential", Undef, Undef, Undef)>>
      storeCall == <<Call("storeCredential", Undef, Undef, Undef)>>
      failed(o, cs) == [outcome |-> o, calls |-> cs, credentials |-> record]
  IN
  IF ~IsW3cVerifiableCredential(credentialAsJson) THEN failed(Err(ErrValidation), <<>>)
  ELSE IF matches.status # "ok" THEN failed(matches, <<>>)
  ELSE IF result = "throws" THEN failed(Err(ErrVerifier), verifyCall)
  ELSE IF result # "undefined" /\ result # "verified"
    THEN failed(ErrWith(ErrFailedToValidate, <<"invalid signature">>), verifyCall)
  ELSE IF stored = Undef THEN failed(Err(ErrStore), verifyCall \o storeCall)
  ELSE [outcome |-> Ok, calls |-> verifyCall \o storeCall,
        credentials |-> Append(record, [credentialRecordType |-> credentialRecordType,
                                        credentialRecordId |-> stored])]

\* shouldAutoRespondToCredential: the body of the handler.
shouldAutoRespondToCredentialBody(request, attachment) ==
  LET credentialJson == getDataAsJson(attachment)
      requestJson == getDataAsJson(request)
  IN
  IF ~IsW3cVerifiableCredential(credentialJson)
  THEN [outcome |-> Err(ErrValidation), ret |-> NoReturn]
  ELSE IF verifyReceivedCredentialMatchesRequest(credentialJson, requestJson).status = "ok"
  THEN [outcome |-> Ok, ret |-> ReturnedValue("true")]
  ELSE [outcome |-> Ok, ret |-> ReturnedValue("false")]

-----------------------------------------------------------------------------
(* Proposal, offer and request *)

\* createProposal, createOffer, createRequest: jsonLdFormat is
\* credentialFormats.jsonld (null: absent); its credential member is what is
\* validated, the whole of it is what is encoded.
createBody(jsonLdFormat, attachId, uuid_, missing) ==
  LET format == CredentialFormatSpec(attachId, JSONLD_VC_DETAIL, uuid_)
  IN  IF jsonLdFormat.form = "null" THEN Thrown(Err(missing), <<>>)
      ELSE IF ~IsJsonLdCredentialDetail(CredentialOf(jsonLdFormat))
      THEN Thrown(Err(ErrValidation), <<>>)
      ELSE [outcome |-> Ok,
            ret |-> Returned(format, getFormatData(jsonLdFormat, format.attachId)),
            calls |-> <<>>]

\* processProposal, processOffer, processRequest
processBody(attachment, missing) ==
  LET json == getDataAsJson(attachment)
  IN  IF json.form = "null" THEN Err(missing)
      ELSE IF ~IsJsonLdCredentialDetail(json) THEN Err(ErrValidation)
      ELSE Ok

\* A change of acceptProposal: the offer carries the proposal's credential
\* without its options.
acceptProposalDropsOptions(attachId, proposalAttachment_, uuid_) ==
  LET format == CredentialFormatSpec(attachId, JSONLD_VC_DETAIL, uuid_)
      credentialProposal == getDataAsJson(proposalAttachment_)
      offerData == Detail(credentialProposal.credential, NoOptions)
  IN  IF ~IsJsonLdCredentialDetail(credentialProposal) THEN Thrown(Err(ErrValidation), <<>>)
      ELSE [outcome |-> Ok,
            ret |-> Returned(format, getFormatData(offerData, format.attachId)),
            calls |-> <<>>]

acceptProposalBody(attachId, proposalAttachment_, uuid_) ==
  LET format == CredentialFormatSpec(attachId, JSONLD_VC_DETAIL, uuid_)
      credentialProposal == getDataAsJson(proposalAttachment_)
      offerData == credentialProposal
  IN  IF ~IsJsonLdCredentialDetail(credentialProposal) THEN Thrown(Err(ErrValidation), <<>>)
      ELSE [outcome |-> Ok,
            ret |-> Returned(format, getFormatData(offerData, format.attachId)),
            calls |-> <<>>]

\* A change of acceptOffer: the attachId given is not used.
acceptOfferNewId(attachId, offerAttachment_, uuid_) ==
  LET credentialOffer == getDataAsJson(offerAttachment_)
      format == CredentialFormatSpec(Undef, JSONLD_VC_DETAIL, uuid_)
  IN  IF ~IsJsonLdCredentialDetail(credentialOffer) THEN Thrown(Err(ErrValidation), <<>>)
      ELSE [outcome |-> Ok,
            ret |-> Returned(format, getFormatData(credentialOffer, format.attachId)),
            calls |-> <<>>]

acceptOfferBody(attachId, offerAttachment_, uuid_) ==
  LET credentialOffer == getDataAsJson(offerAttachment_)
      format == CredentialFormatSpec(attachId, JSONLD_VC_DETAIL, uuid_)
  IN  IF ~IsJsonLdCredentialDetail(credentialOffer) THEN Thrown(Err(ErrValidation), <<>>)
      ELSE [outcome |-> Ok,
            ret |-> Returned(format, getFormatData(credentialOffer, format.attachId)),
            calls |-> <<>>]

-----------------------------------------------------------------------------
(* Inputs *)

Ed25519Signature2018 == "Ed25519Signature2018"
BbsBlsSignature2020 == "BbsBlsSignature2020"
Ed25519Key == "Ed25519VerificationKey2018"
Bls12381g2Key == "Bls12381G2Key2020"

Alice == Credential("VerifiableCredential", "string", "did:example:123", "Alice")
Bob == Credential("VerifiableCredential", "object", "did:example:456", "Bob")
NoIssuer == Credential("VerifiableCredential", "absent", Undef, "Alice")

Options(proofType, proofPurpose, created, domain, challenge, credentialStatus) ==
  [proofType |-> proofType, proofPurpose |-> proofPurpose, created |-> created,
   domain |-> domain, challenge |-> challenge, credentialStatus |-> credentialStatus]

PlainOptions == Options(Ed25519Signature2018, "assertionMethod", Undef, Undef, Undef, Undef)
NoProofType == Options(Undef, "assertionMethod", Undef, Undef, Undef, Undef)

\* Details of a negotiation: a well-formed one, one whose credential and one
\* whose options do not pass validation, and null.
NegotiatedDetails ==
  {Detail(Alice, PlainOptions), Detail(NoIssuer, PlainOptions),
   Detail(Bob, NoProofType), NullJson}

\* Requests an issuer may receive.
IssueRequests ==
  {Detail(c, Options(t, "assertionMethod", created, domain, challenge, status)) :
     c \in {Alice, Bob, NoIssuer}, t \in {Ed25519Signature2018, Undef},
     created \in {Undef, "2022-01-01"}, domain \in {Undef, "a"},
     challenge \in {Undef, "c1"}, status \in {Undef, "status-1"}}
  \cup {NullJson}

\* Requests a holder has sent.
SentRequests ==
  {Detail(c, Options(Ed25519Signature2018, "assertionMethod", created, domain, challenge, Undef)) :
     c \in {Alice, Bob}, created \in {Undef, "", "2022-01-01"},
     domain \in {Undef, "a"}, challenge \in {Undef, "c1"}}
  \cup {NullJson}

Proofs ==
  {[shape |-> "object", type |-> t, proofPurpose |-> p, created |-> created,
    domain |-> domain, challenge |-> challenge, verificationMethod |-> "did:example:123#key-1"] :
     t \in {Ed25519Signature2018, BbsBlsSignature2020}, p \in {"assertionMethod", Undef},
     created \in {Undef, "2022-01-01", "2022-02-02"}, domain \in {Undef, "a", "b"},
     challenge \in {Undef, "c1"}}
  \cup {[shape |-> "array", type |-> t, proofPurpose |-> "assertionMethod",
          created |-> created, domain |-> domain, challenge |-> Undef,
          verificationMethod |-> "did:example:123#key-1"] :
            t \in {Ed25519Signature2018, BbsBlsSignature2020},
            created \in {Undef, "2022-01-01"}, domain \in {Undef, "b"}}
  \cup {NoProof}

\* Credentials a holder may receive.
ReceivedCredentials ==
  {Verifiable(c, p) : c \in {Alice, Bob}, p \in Proofs}
  \cup {Verifiable(NoIssuer, [NoProof EXCEPT !.shape = "object", !.type = Ed25519Signature2018]),
        NullJson}

Received(details, id) == {getFormatData(d, id) : d \in details}

Method(id, type) == [id |-> id, type |-> type]

\* What resolveDidDocument answers: it throws, or a document with these
\* verification methods.
NoResolution == [ok |-> FALSE, verificationMethod |-> <<>>]
Resolved(methods) == [ok |-> TRUE, verificationMethod |-> methods]

Resolutions ==
  {NoResolution,
   Resolved(<<>>),
   Resolved(<<Method("#key-1", Ed25519Key)>>),
   Resolved(<<Method("#key-1", Bls12381g2Key)>>),
   Resolved(<<Method("#key-1", Bls12381g2Key), Method("#key-2", Ed25519Key),
              Method("#key-3", Ed25519Key)>>),
   Resolved(<<Method("", Ed25519Key)>>)}

NegotiatedResolutions == {NoResolution, Resolved(<<Method("#key-1", Ed25519Key)>>)}

\* What getVerificationMethodTypesByProofType answers.
KeyTypeLists ==
  {<<>>, <<Ed25519Key>>, <<Ed25519Key, Bls12381g2Key>>, <<Bls12381g2Key, Ed25519Key>>}

VerificationMethods == {Undef, "", "did:example:123#explicit"}

SlotIds ==
  {proposalAttachment.id, offerAttachment.id, requestAttachment.id,
   credentialAttachment.id}

\* The attachId argument: none, or the id of the attachment answered.
AttachIds(attachment) == {Undef, attachment.id}

\* uuid(): an id no attachment of the exchange carries.
UuidPool == <<"uuid-1", "uuid-2", "uuid-3", "uuid-4", "uuid-5">>

uuid ==
  UuidPool[CHOOSE i \in 1..Len(UuidPool) :
             /\ UuidPool[i] \notin SlotIds
             /\ \A j \in 1..(i - 1) : UuidPool[j] \in SlotIds]

NoArgs ==
  [attachId |-> Undef, verificationMethod |-> Undef, jsonLdFormat |-> NullJson,
   resolved |-> NoResolution, keyType |-> <<>>, result |-> Undef, stored |-> Undef,
   before |-> <<>>]

-----------------------------------------------------------------------------
(* Operations.  A created message starts a new exchange; a message made anew  *)
(* supersedes the later ones.                                                 *)

Observe(name, a, o, r, cs) ==
  /\ op' = name
  /\ args' = a
  /\ outcome' = o
  /\ ret' = r
  /\ calls' = cs

\* The phase after message k (2: offer, 3: request, 4: credential) was made
\* from message k - 1.
Made(k) == IF phase >= k - 1 THEN k ELSE phase

createProposal(jsonLdFormat) ==
  LET r == createBody(jsonLdFormat, Undef, uuid, ErrMissingCreateProposal)
  IN  /\ Observe("createProposal", [NoArgs EXCEPT !.jsonLdFormat = jsonLdFormat],
                 r.outcome, r.ret, r.calls)
      /\ IF r.outcome.status = "ok"
         THEN /\ proposalAttachment' = r.ret.attachment
              /\ offerAttachment' = NoAttachment
              /\ requestAttachment' = NoAttachment
              /\ credentialAttachment' = NoAttachment
              /\ credentials' = <<>>
              /\ phase' = 1
         ELSE UNCHANGED <<proposalAttachment, offerAttachment, requestAttachment,
                          credentialAttachment, credentials, phase>>

processProposal ==
  /\ proposalAttachment # NoAttachment
  /\ Observe("processProposal", NoArgs,
             processBody(proposalAttachment, ErrMissingProposal), NoReturn, <<>>)
  /\ UNCHANGED <<proposalAttachment, offerAttachment, requestAttachment,
                 credentialAttachment, credentials, phase>>

acceptProposal(attachId) ==
  /\ proposalAttachment # NoAttachment
  /\ LET r == acceptProposalBody(attachId, proposalAttachment, uuid)
     IN  /\ Observe("acceptProposal", [NoArgs EXCEPT !.attachId = attachId],
                    r.outcome, r.ret, r.calls)
         /\ IF r.outcome.status = "ok"
            THEN /\ offerAttachment' = r.ret.attachment
                 /\ requestAttachment' = NoAttachment
                 /\ credentialAttachment' = NoAttachment
                 /\ phase' = Made(2)
            ELSE UNCHANGED <<offerAttachment, requestAttachment, credentialAttachment, phase>>
  /\ UNCHANGED <<proposalAttachment, credentials>>

createOffer(jsonLdFormat, attachId) ==
  LET r == createBody(jsonLdFormat, attachId, uuid, ErrMissingCreateOffer)
  IN  /\ Observe("createOffer",
                 [NoArgs EXCEPT !.jsonLdFormat = jsonLdFormat, !.attachId = attachId],
                 r.outcome, r.ret, r.calls)
      /\ IF r.outcome.status = "ok"
         THEN /\ proposalAttachment' = NoAttachment
              /\ offerAttachment' = r.ret.attachment
              /\ requestAttachment' = NoAttachment
              /\ credentialAttachment' = NoAttachment
              /\ credentials' = <<>>
              /\ phase' = 0
         ELSE UNCHANGED <<proposalAttachment, offerAttachment, requestAttachment,
                          credentialAttachment, credentials, phase>>

processOffer ==
  /\ offerAttachment # NoAttachment
  /\ Observe("processOffer", NoArgs,
             processBody(offerAttachment, ErrMissingOffer), NoReturn, <<>>)
  /\ UNCHANGED <<proposalAttachment, offerAttachment, requestAttachment,
                 credentialAttachment, credentials, phase>>

acceptOffer(attachId) ==
  /\ offerAttachment # NoAttachment
  /\ LET r == acceptOfferBody(attachId, offerAttachment, uuid)
     IN  /\ Observe("acceptOffer", [NoArgs EXCEPT !.attachId = attachId],
                    r.outcome, r.ret, r.calls)
         /\ IF r.outcome.status = "ok"
            THEN /\ requestAttachment' = r.ret.attachment
                 /\ credentialAttachment' = NoAttachment
                 /\ phase' = Made(3)
            ELSE UNCHANGED <<requestAttachment, credentialAttachment, phase>>
  /\ UNCHANGED <<proposalAttachment, offerAttachment, credentials>>

createRequest(jsonLdFormat) ==
  LET r == createBody(jsonLdFormat, Undef, uuid, ErrMissingCreateRequest)
  IN  /\ Observe("createRequest", [NoArgs EXCEPT !.jsonLdFormat = jsonLdFormat],
                 r.outcome, r.ret, r.calls)
      /\ IF r.outcome.status = "ok"
         THEN /\ proposalAttachment' = NoAttachment
              /\ offerAttachment' = NoAttachment
              /\ requestAttachment' = r.ret.attachment
              /\ credentialAttachment' = NoAttachment
              /\ credentials' = <<>>
              /\ phase' = 0
         ELSE UNCHANGED <<proposalAttachment, offerAttachment, requestAttachment,
                          credentialAttachment, credentials, phase>>

processRequest ==
  /\ requestAttachment # NoAttachment
  /\ Observe("processRequest", NoArgs,
             processBody(requestAttachment, ErrMissingRequest), NoReturn, <<>>)
  /\ UNCHANGED <<proposalAttachment, offerAttachment, requestAttachment,
                 credentialAttachment, credentials, phase>>

\* The answer of the resolver is drawn only for a call that may ask for it.
acceptRequest(attachId, verificationMethod, resolved, keyType, signs) ==
  /\ requestAttachment # NoAttachment
  /\ verificationMethod # Undef => resolved = NoResolution
  /\ LET r == acceptRequestBody(requestAttachment, attachId, verificationMethod,
                                resolved, keyType, signs, uuid)
     IN  /\ Observe("acceptRequest",
                    [NoArgs EXCEPT !.attachId = attachId,
                                   !.verificationMethod = verificationMethod,
                                   !.resolved = IF Len(r.calls) > 0 THEN resolved ELSE NoResolution,
                                   !.keyType = IF Len(r.calls) > 1 THEN keyType ELSE <<>>],
                    r.outcome, r.ret, r.calls)
         /\ IF r.outcome.status = "ok"
            THEN credentialAttachment' = r.ret.attachment /\ phase' = Made(4)
            ELSE UNCHANGED <<credentialAttachment, phase>>
  /\ UNCHANGED <<proposalAttachment, offerAttachment, requestAttachment, credentials>>

processCredential(result, stored) ==
  /\ credentialAttachment # NoAttachment
  /\ requestAttachment # NoAttachment
  /\ Len(credentials) < MaxCredentials
  /\ LET r == processCredentialBody(credentials, credentialAttachment, requestAttachment,
                                    result, stored)
     IN  /\ Observe("processCredential",
                    [NoArgs EXCEPT !.before = credentials,
                                   !.result = IF Len(r.calls) > 0 THEN result ELSE Undef,
                                   !.stored = IF Len(r.calls) > 1 THEN stored ELSE Undef],
                    r.outcome, NoReturn, r.calls)
         /\ credentials' = r.credentials
  /\ UNCHANGED <<proposalAttachment, offerAttachment, requestAttachment,
                 credentialAttachment, phase>>

shouldAutoRespondToCredential ==
  /\ credentialAttachment # NoAttachment
  /\ requestAttachment # NoAttachment
  /\ LET r == shouldAutoRespondToCredentialBody(requestAttachment, credentialAttachment)
     IN  Observe("shouldAutoRespondToCredential", NoArgs, r.outcome, r.ret, <<>>)
  /\ UNCHANGED <<proposalAttachment, offerAttachment, requestAttachment,
                 credentialAttachment, credentials, phase>>

-----------------------------------------------------------------------------
(* Specifications *)

Idle ==
  /\ credentials = <<>>
  /\ op = "none"
  /\ args = NoArgs
  /\ outcome = Ok
  /\ ret = NoReturn
  /\ calls = <<>>

\* A negotiation: the exchange is new, or one message has been received.
Init ==
  /\ Idle
  /\ \/ /\ proposalAttachment \in Received(NegotiatedDetails, "proposal-1") \cup {NoAttachment}
        /\ offerAttachment = NoAttachment
        /\ requestAttachment = NoAttachment
     \/ /\ proposalAttachment = NoAttachment
        /\ offerAttachment \in Received(NegotiatedDetails, "offer-1")
        /\ requestAttachment = NoAttachment
     \/ /\ proposalAttachment = NoAttachment
        /\ offerAttachment = NoAttachment
        /\ requestAttachment \in Received(NegotiatedDetails, "request-1")
  /\ credentialAttachment = NoAttachment
  /\ phase = IF proposalAttachment # NoAttachment THEN 1 ELSE 0

Next ==
  \/ \E d \in NegotiatedDetails : createProposal(d)
  \/ processProposal
  \/ \E id \in AttachIds(proposalAttachment) : acceptProposal(id)
  \/ \E d \in NegotiatedDetails, id \in {Undef, "attach-1"} : createOffer(d, id)
  \/ processOffer
  \/ \E id \in AttachIds(offerAttachment) : acceptOffer(id)
  \/ \E d \in NegotiatedDetails : createRequest(d)
  \/ processRequest
  \/ \E id \in AttachIds(requestAttachment), vm \in {Undef, "did:example:123#explicit"},
        resolved \in NegotiatedResolutions, signs \in BOOLEAN :
       acceptRequest(id, vm, resolved, <<Ed25519Key>>, signs)

Spec == Init /\ [][Next]_vars

\* Issuance: a request has been received.
InitIssue ==
  /\ Idle
  /\ proposalAttachment = NoAttachment
  /\ offerAttachment = NoAttachment
  /\ requestAttachment \in Received(IssueRequests, "request-1")
  /\ credentialAttachment = NoAttachment
  /\ phase = 0

NextIssue ==
  \E vm \in VerificationMethods, resolved \in Resolutions,
     keyType \in KeyTypeLists, signs \in BOOLEAN :
    acceptRequest(Undef, vm, resolved, keyType, signs)

SpecIssue == InitIssue /\ [][NextIssue]_vars

\* Receipt: the holder has sent a request and received a credential.
InitReceive ==
  /\ Idle
  /\ proposalAttachment = NoAttachment
  /\ offerAttachment = NoAttachment
  /\ requestAttachment \in Received(SentRequests, "request-1")
  /\ credentialAttachment \in Received(ReceivedCredentials, "credential-1")
  /\ phase = 0

NextReceive ==
  \/ \E result \in VerifyAnswers, stored \in {Undef, "record-1"} :
       processCredential(result, stored)
  \/ shouldAutoRespondToCredential

SpecReceive == InitReceive /\ [][NextReceive]_vars

-----------------------------------------------------------------------------
(* Properties *)

RequestJson == getDataAsJson(requestAttachment)
CredentialJson == getDataAsJson(credentialAttachment)

\* The received credential decodes and the request is a detail: the matcher
\* has both of its arguments.
Matchable == IsW3cVerifiableCredential(CredentialJson) /\ RequestJson.form = "detail"

ReceivedProof == CredentialJson.proof
SentOptions == RequestJson.options

SignCalls == SelectSeq(calls, LAMBDA c : c.fn = "signCredential")

\* The rule set of the matcher as the specification words it: created is
\* compared whenever the request carries it.
RuleViolated ==
  \/ ReceivedProof.shape = "array"
  \/ SentOptions.created # Undef /\ ReceivedProof.created # SentOptions.created
  \/ ReceivedProof.domain # SentOptions.domain
  \/ ReceivedProof.challenge # SentOptions.challenge
  \/ ReceivedProof.type # SentOptions.proofType
  \/ ReceivedProof.proofPurpose # SentOptions.proofPurpose
  \/ CredentialJson.credential # RequestJson.credential

\* C1: processCredential appends to the exchange record's credentials only
\* after the matcher, the verification and the store call have all succeeded:
\* whenever the matcher fails, the verifier does not report verified = true,
\* or the store call fails, the list is what it was before the call.
C1_AppendOnlyAfterAllSucceeded ==
  op = "processCredential" =>
    ( ( \/ ~IsW3cVerifiableCredential(CredentialJson)
        \/ verifyReceivedCredentialMatchesRequest(CredentialJson, RequestJson).status # "ok"
        \/ args.result # "verified"
        \/ args.stored = Undef )
      => credentials = args.before )

\* C2: in processCredential the matcher runs before the verification: for
\* every credential and request that violate a matcher rule, the call fails
\* with the mismatch error and neither verifyCredential nor storeCredential
\* is invoked.
C2_MismatchBeforeVerification ==
  (op = "processCredential" /\ Matchable /\ RuleViolated) =>
    /\ outcome.status = "error"
    /\ outcome.message \in MatcherErrors
    /\ calls = <<>>

Listed(options, field) == IF options[field] # Undef THEN <<field>> ELSE <<>>

\* The fields among challenge, domain, credentialStatus, created that the
\* options set, in that order.
SetFields(options) ==
  Listed(options, "challenge") \o Listed(options, "domain")
    \o Listed(options, "credentialStatus") \o Listed(options, "created")

IssueCall == op = "acceptRequest" /\ RequestJson.form = "detail"

\* C3 as claimed: acceptRequest on a request whose options set one of
\* challenge, domain, credentialStatus, created fails with the
\* unsupported-option error listing exactly the set fields in canonical
\* order, and signCredential is not invoked.
C3_AlwaysUnsupportedOptionError ==
  (IssueCall /\ SetFields(RequestJson.options) # <<>>) =>
    /\ outcome = ErrWith(ErrUnsupportedFields, SetFields(RequestJson.options))
    /\ SignCalls = <<>>

\* The call has a verification method to sign with: the caller's (not empty),
\* or one derived from the issuer's document.
MethodAvailable ==
  LET derived == verificationMethodFor(args.verificationMethod, RequestJson,
                                       args.resolved, args.keyType)
  IN  derived.outcome.status = "ok" /\ derived.value # ""

\* C3, amended: acceptRequest on such a request always fails and never invokes
\* signCredential; it fails with the unsupported-option error listing exactly
\* the set fields in canonical order whenever a verification method is
\* available, and with the error of the verification method otherwise.
C3_UnsupportedOptionsRejected ==
  (IssueCall /\ SetFields(RequestJson.options) # <<>>) =>
    /\ outcome.status = "error"
    /\ SignCalls = <<>>
    /\ MethodAvailable =>
         outcome = ErrWith(ErrUnsupportedFields, SetFields(RequestJson.options))
    /\ ~MethodAvailable => outcome.message # ErrUnsupportedFields

C3_Witness ==
  /\ IssueCall
  /\ args.verificationMethod = Undef
  /\ Called("resolveDidDocument")
  /\ outcome = ErrWith(ErrUnsupportedFields, <<"challenge", "domain", "credentialStatus", "created">>)

\* C4: when the caller of acceptRequest supplies a verification method, the
\* resolver is not invoked during the call and signCredential receives
\* exactly that method (once, when the call returns); the resolver is invoked
\* only when no method was supplied.
C4_ExplicitMethodWins ==
  op = "acceptRequest" =>
    /\ args.verificationMethod # Undef =>
         /\ ~Called("resolveDidDocument")
         /\ ~Called("getVerificationMethodTypesByProofType")
         /\ \A i \in 1..Len(SignCalls) :
              SignCalls[i].verificationMethod = args.verificationMethod
         /\ outcome.status = "ok" => Len(SignCalls) = 1
    /\ Called("resolveDidDocument") => args.verificationMethod = Undef

C4_Witness ==
  /\ op = "acceptRequest"
  /\ args.verificationMethod = "did:example:123#explicit"
  /\ outcome.status = "ok"
  /\ Len(SignCalls) = 1
  /\ SignCalls[1].verificationMethod = "did:example:123#explicit"
  /\ getDataAsJson(credentialAttachment).proof.verificationMethod = "did:example:123#explicit"

\* C5: shouldAutoRespondToCredential never throws: for every credential
\* attachment and request attachment it returns a boolean, true exactly when
\* the matcher accepts the pair.
C5_AutoRespondNeverThrows ==
  op = "shouldAutoRespondToCredential" =>
    /\ outcome.status = "ok"
    /\ ret.value \in {"true", "false"}
    /\ ret.value = "true" <=>
         /\ Matchable
         /\ verifyReceivedCredentialMatchesRequest(CredentialJson, RequestJson).status = "ok"

\* C6: acceptProposal followed by acceptOffer preserves the detail: the
\* payload of the request made from the offer made from a valid proposal is
\* the payload of the proposal, and both operations return the
\* unsigned-detail format.
C6_DetailPreserved ==
  /\ phase >= 2 => getDataAsJson(offerAttachment) = getDataAsJson(proposalAttachment)
  /\ phase >= 3 => /\ getDataAsJson(requestAttachment) = getDataAsJson(proposalAttachment)
                   /\ requestAttachment.base64 = proposalAttachment.base64
  /\ (op \in {"acceptProposal", "acceptOffer"} /\ outcome.status = "ok") =>
       /\ ret.format.format = JSONLD_VC_DETAIL
       /\ ret.attachment.mimeType = "application/json"

C6_Witness ==
  /\ phase = 3
  /\ op = "acceptOffer"
  /\ outcome.status = "ok"
  /\ getDataAsJson(proposalAttachment) = Detail(Alice, PlainOptions)
  /\ getDataAsJson(ret.attachment) = Detail(Alice, PlainOptions)
  /\ ret.attachment = requestAttachment
  /\ requestAttachment.id # offerAttachment.id
  /\ offerAttachment.id # proposalAttachment.id

\* C7 as claimed: the attachment id is stable across the phases of an
\* exchange: the offer, the request and the credential made in turn from a
\* proposal carry the id of the proposal attachment.
C7_IdStableAcrossPhases ==
  /\ phase >= 2 => offerAttachment.id = proposalAttachment.id
  /\ phase >= 3 => requestAttachment.id = proposalAttachment.id
  /\ phase >= 4 => credentialAttachment.id = proposalAttachment.id

\* The attachment an accept operation answered and the one it made.
Answered ==
  IF op = "acceptProposal" THEN proposalAttachment
  ELSE IF op = "acceptOffer" THEN offerAttachment
  ELSE requestAttachment

Made_ ==
  IF op = "acceptProposal" THEN offerAttachment
  ELSE IF op = "acceptOffer" THEN requestAttachment
  ELSE credentialAttachment

\* C7, amended: each accept operation gives its attachment, and the format it
\* returns, the attachId supplied; it generates a new id, different from
\* the id of the attachment it answers, only when none is supplied.  The id
\* is the same in two successive phases exactly when the caller supplies the
\* id of the attachment answered.
C7_IdFollowsAttachId ==
  (op \in {"acceptProposal", "acceptOffer", "acceptRequest"} /\ outcome.status = "ok") =>
    /\ Made_ = ret.attachment
    /\ ret.format.attachId = ret.attachment.id
    /\ args.attachId # Undef => ret.attachment.id = args.attachId
    /\ args.attachId = Undef =>
         /\ ret.attachment.id # Undef
         /\ ret.attachment.id # Answered.id
    /\ ret.attachment.id = Answered.id <=> args.attachId = Answered.id

C7_Witness ==
  /\ phase = 4
  /\ op = "acceptRequest"
  /\ outcome.status = "ok"
  /\ args.attachId = requestAttachment.id
  /\ credentialAttachment.id = proposalAttachment.id
  /\ requestAttachment.id = proposalAttachment.id
  /\ offerAttachment.id = proposalAttachment.id

\* The detail an operation of the negotiation received.
ReceivedDetail ==
  IF op \in {"processProposal", "acceptProposal"} THEN getDataAsJson(proposalAttachment)
  ELSE IF op \in {"processOffer", "acceptOffer"} THEN getDataAsJson(offerAttachment)
  ELSE getDataAsJson(requestAttachment)

\* C8: a detail received in a proposal, offer or request is validated before
\* it is used: in processProposal, acceptProposal, processOffer, acceptOffer,
\* processRequest and acceptRequest a detail that fails validation makes the
\* operation fail, and it is neither encoded into an attachment nor passed to
\* the resolver or to signCredential.
C8_ValidatedBeforeUse ==
  ( /\ op \in {"processProposal", "acceptProposal", "processOffer", "acceptOffer",
               "processRequest", "acceptRequest"}
    /\ ~IsJsonLdCredentialDetail(ReceivedDetail) ) =>
    /\ outcome.status = "error"
    /\ ret = NoReturn
    /\ calls = <<>>

\* C9: whenever the request carries created, the matcher fails unless the
\* proof's created equals it; whenever the request carries no created, no
\* value of the proof's created makes the matcher fail.
C9_CreatedRule ==
  (op = "shouldAutoRespondToCredential" /\ Matchable /\ ReceivedProof.shape = "object") =>
    /\ (SentOptions.created # Undef /\ ReceivedProof.created # SentOptions.created)
         => ret.value = "false"
    /\ SentOptions.created = Undef =>
         \A created \in {Undef, "", "2022-01-01", "2022-02-02"} :
           verifyReceivedCredentialMatchesRequest(
             [CredentialJson EXCEPT !.proof.created = created], RequestJson)
           = verifyReceivedCredentialMatchesRequest(CredentialJson, RequestJson)

\* The verification methods of the resolved document with the first
\* compatible key type, in the document's order.
Eligible ==
  SelectSeq(args.resolved.verificationMethod, LAMBDA m : m.type = args.keyType[1])

\* C10: deriveVerificationMethod takes the first key type of the list for the
\* proof type and the first verification method of that key type in the
\* issuer's document; when the document has none of that key type the call
\* fails with the missing-verification-method error and signCredential is
\* not invoked.
C10_FirstMatch ==
  ( /\ op = "acceptRequest"
    /\ Called("getVerificationMethodTypesByProofType")
    /\ Len(args.keyType) > 0 ) =>
    /\ Eligible = <<>> =>
         /\ outcome = ErrWith(ErrMissingMethodForKeyType, args.keyType)
         /\ SignCalls = <<>>
    /\ Eligible # <<>> =>
         /\ outcome.message # ErrMissingMethodForKeyType
         /\ \A i \in 1..Len(SignCalls) : SignCalls[i].verificationMethod = Eligible[1].id
         /\ (outcome.status = "ok") =>
              /\ Len(SignCalls) = 1
              /\ getDataAsJson(credentialAttachment).proof.verificationMethod = Eligible[1].id

C10_Witness ==
  /\ op = "acceptRequest"
  /\ outcome.status = "ok"
  /\ args.keyType = <<Ed25519Key, Bls12381g2Key>>
  /\ Len(args.resolved.verificationMethod) = 3
  /\ Len(SignCalls) = 1
  /\ SignCalls[1].verificationMethod = "#key-2"

\* Another rule of the matcher is violated by the received credential, or the
\* request is not a detail at all.
OtherRuleViolated ==
  \/ RequestJson.form # "detail"
  \/ SentOptions.created # Undef /\ ReceivedProof.created # SentOptions.created
  \/ ReceivedProof.domain # SentOptions.domain
  \/ ReceivedProof.challenge # SentOptions.challenge
  \/ ReceivedProof.type # SentOptions.proofType
  \/ ReceivedProof.proofPurpose # SentOptions.proofPurpose
  \/ CredentialJson.credential # RequestJson.credential

\* C11: the proof-array check is the first rule of the matcher: a credential
\* whose proof is an array is rejected with the proof-array error whatever the
\* other members of the credential and of the request are, so processCredential
\* fails with that error before any collaborator is invoked and
\* shouldAutoRespondToCredential answers false.
C11_ProofArrayFirst ==
  (IsW3cVerifiableCredential(CredentialJson) /\ ReceivedProof.shape = "array") =>
    /\ verifyReceivedCredentialMatchesRequest(CredentialJson, RequestJson) = Err(ErrProofArray)
    /\ op = "processCredential" =>
         /\ outcome = Err(ErrProofArray)
         /\ calls = <<>>
         /\ credentials = args.before
    /\ op = "shouldAutoRespondToCredential" =>
         /\ outcome = Ok
         /\ ret = ReturnedValue("false")

C11_Witness ==
  /\ op = "processCredential"
  /\ IsW3cVerifiableCredential(CredentialJson)
  /\ ReceivedProof.shape = "array"
  /\ RequestJson.form = "detail"
  /\ ReceivedProof.type # SentOptions.proofType
  /\ ReceivedProof.domain # SentOptions.domain
  /\ outcome = Err(ErrProofArray)

====
